---- MODULE Spec2Model ----
(***************************************************************************)
(* Model of risk_management/views.py: the four Django class-based views    *)
(* RiskProfileAPI, RiskFactorAPI, RiskConditionalAPI, AssumptionProfileAPI *)
(* and the record store (the four model tables) they read and write.       *)
(*                                                                         *)
(* Spec     : the handlers that write the risk hierarchy.                  *)
(*            RiskFactorAPI.post runs in NumRequests concurrent request    *)
(*            contexts, one step per record write; RiskProfileAPI.post     *)
(*            makes one write and runs in a context of its own.  Every     *)
(*            save() is one committed single-record write that may raise.  *)
(* SpecList : the three list handlers of the risk hierarchy, which write   *)
(*            nothing, over every store the write handlers can leave.      *)
(* SpecAP   : AssumptionProfileAPI, one POST per behaviour, its body       *)
(*            drawn by InitAP.                                             *)
(***************************************************************************)
EXTENDS Integers, Sequences, FiniteSets, TLC

VARIABLES
    risk_profiles,        \* table RiskProfile, pk = index
    risk_factors,         \* table RiskFactor, pk = index
    risk_conditionals,    \* table RiskConditional, pk = index (creation order)
    conditionals_list,    \* per RiskFactor pk: the list its creating request supplied
    pc,                   \* per request context: position in the handler
    op,                   \* per request context: the handler being run
    body,                 \* per request context: decoded JSON body of the running handler
    new_risk_factor,      \* per request context: pk of the factor its request saved, 0 if none
    item_index,           \* per request context: list entries the loop has saved
    response,             \* per request context: what the caller receives
    filter_dict,          \* request.GET.dict() of the list request last answered
    assumption_profiles,  \* table AssumptionProfile
    ap_pc,                \* AssumptionProfileAPI request: position
    ap_body,              \* AssumptionProfileAPI request: decoded JSON body
    ap_response           \* AssumptionProfileAPI request: what the caller receives

vars == <<risk_profiles, risk_factors, risk_conditionals, conditionals_list,
          pc, op, body, new_risk_factor, item_index, response, filter_dict,
          assumption_profiles, ap_pc, ap_body, ap_response>>

riskVars == <<risk_profiles, risk_factors, risk_conditionals, conditionals_list,
              pc, op, body, new_risk_factor, item_index, response, filter_dict>>

apVars == <<assumption_profiles, ap_pc, ap_body, ap_response>>

(***************************************************************************)
(* Bounds                                                                  *)
(***************************************************************************)
NumRequests == 2

MaxProfiles == 2

MaxFactors == 2

MaxConditionals == 2

(***************************************************************************)
(* Numbers.  JSON numbers are modelled as exact rationals in lowest terms  *)
(* ([n, d], d > 0), so that -100, -100.0 and -1000/10 are the same value   *)
(* and the linear formulas are computed operation by operation.            *)
(***************************************************************************)
Abs(i) == IF i < 0 THEN -i ELSE i

RECURSIVE GCD(_, _)
GCD(a, b) == IF b = 0 THEN a ELSE GCD(b, a % b)

Rat(n, d) ==
    LET s == IF d < 0 THEN -1 ELSE 1
        g == GCD(Abs(n), Abs(d))
    IN  [n |-> (s * n) \div g, d |-> (s * d) \div g]

RatAdd(a, b) == Rat(a.n * b.d + b.n * a.d, a.d * b.d)

RatMul(a, b) == Rat(a.n * b.n, a.d * b.d)

RatDiv(a, b) == Rat(a.n * b.d, a.d * b.n)

RatLe(a, b) == a.n * b.d <= b.n * a.d

Sentinel == Rat(-100, 1)

Unset == [n |-> 0, d |-> 0]

(***************************************************************************)
(* Responses                                                               *)
(***************************************************************************)
NoResponse == [kind |-> "none", status |-> "", message |-> "", rows |-> <<>>]

JsonStatus(s, m) == [kind |-> "json", status |-> s, message |-> m, rows |-> <<>>]

JsonList(rows) == [kind |-> "list", status |-> "", message |-> "", rows |-> rows]

Fault(e) == [kind |-> "fault", status |-> "", message |-> e, rows |-> <<>>]

Has(b, k) == k \in DOMAIN b

(***************************************************************************)
(* AssumptionProfileAPI                                                    *)
(***************************************************************************)
APKeys == {"name", "gdp_growth", "unemployment_rate", "national_home_price_index",
           "high_yield_spread", "constant_default_rate", "constant_prepayment_rate",
           "recovery", "lag"}

DefaultKeys == {"constant_default_rate", "constant_prepayment_rate", "recovery", "lag"}

GdpValues == {Rat(32, 10), Rat(-1, 1)}

UnemploymentValues == {Rat(85, 10), Rat(0, 1)}

HomePriceValues == {Rat(37, 10), Rat(-100, 1)}

YieldSpreadValues == {Rat(52, 10), Rat(9, 1)}

DefaultValues(k) ==
    CASE k = "constant_default_rate"    -> {Sentinel, Rat(8, 1), Rat(-101, 1)}
      [] k = "constant_prepayment_rate" -> {Sentinel, Rat(1725, 100)}
      [] k = "recovery"                 -> {Sentinel, Rat(-8923, 100)}
      [] k = "lag"                      -> {Sentinel, Rat(128, 1)}

APValues(k) ==
    CASE k = "name"                      -> {"X"}
      [] k = "gdp_growth"                -> GdpValues
      [] k = "unemployment_rate"         -> UnemploymentValues
      [] k = "national_home_price_index" -> HomePriceValues
      [] k = "high_yield_spread"         -> YieldSpreadValues
      [] OTHER                           -> DefaultValues(k)

APBody(g, u, h, y, cdr, cpr, rec, lag) ==
    ("name" :> "X") @@ ("gdp_growth" :> g) @@ ("unemployment_rate" :> u) @@
    ("national_home_price_index" :> h) @@ ("high_yield_spread" :> y) @@
    ("constant_default_rate" :> cdr) @@ ("constant_prepayment_rate" :> cpr) @@
    ("recovery" :> rec) @@ ("lag" :> lag)

FullAPBodies ==
    {APBody(g, u, h, y, cdr, cpr, rec, lag) :
        g \in GdpValues, u \in UnemploymentValues,
        h \in HomePriceValues, y \in YieldSpreadValues,
        cdr \in DefaultValues("constant_default_rate"),
        cpr \in DefaultValues("constant_prepayment_rate"),
        rec \in DefaultValues("recovery"),
        lag \in DefaultValues("lag")}

ExampleAPBody ==
    APBody(Rat(32, 10), Rat(85, 10), Rat(37, 10), Rat(52, 10),
           Sentinel, Sentinel, Sentinel, Rat(128, 1))

Without(b, k) == [j \in (DOMAIN b) \ {k} |-> b[j]]

\* a request body is any JSON object: each required key may be absent
APBodies == FullAPBodies \cup {Without(ExampleAPBody, k) : k \in APKeys}

\* lines 351-352: cdr = (gdp_growth * -1 + 6.5); cdr += (unemployment_rate * 1.2 - 5.5)
CDRFormula(gdp_growth, unemployment_rate) ==
    LET cdr == RatAdd(RatMul(gdp_growth, Rat(-1, 1)), Rat(65, 10))
    IN  RatAdd(cdr, RatAdd(RatMul(unemployment_rate, Rat(12, 10)), Rat(-55, 10)))

\* mutant: "/" as floor division of integers, so 245/9 is 27
CPRFormulaFloorDiv(high_yield_spread) ==
    RatAdd(RatDiv(RatMul(high_yield_spread, Rat(-10, 1)), Rat(9, 1)), Rat(245 \div 9, 1))

\* line 355: cpr = high_yield_spread * -10/9 + 245/9
CPRFormula(high_yield_spread) ==
    RatAdd(RatDiv(RatMul(high_yield_spread, Rat(-10, 1)), Rat(9, 1)),
           RatDiv(Rat(245, 1), Rat(9, 1)))

\* line 358: recovery = national_home_price_index * 2.5 + 50
RecoveryFormula(national_home_price_index) ==
    RatAdd(RatMul(national_home_price_index, Rat(25, 10)), Rat(50, 1))

\* mutant: "value > -100" in place of "value != -100"
IsSentinelOrBelow(value) == RatLe(value, Sentinel)

\* line 347: value != -100 is the negation of this test
IsSentinel(value) == value = Sentinel

\* lines 331-337: the model instance before the loop; the four default
\* assumptions are not passed to the constructor
NewAssumptionProfile(b) ==
    [name |-> b["name"],
     gdp_growth |-> b["gdp_growth"],
     unemployment_rate |-> b["unemployment_rate"],
     national_home_price_index_growth |-> b["national_home_price_index"],
     high_yield_spread |-> b["high_yield_spread"],
     constant_default_rate |-> Unset,
     constant_prepayment_rate |-> Unset,
     recovery |-> Unset,
     lag |-> Unset]

\* mutant: the else branch without its "lag" case (lines 360-362 missing)
ApplyKeyNoLagCase(p, key, value, b) ==
    IF ~IsSentinel(value)
    THEN [p EXCEPT ![key] = value]
    ELSE CASE key = "constant_default_rate" ->
                [p EXCEPT !.constant_default_rate =
                     CDRFormula(b["gdp_growth"], b["unemployment_rate"])]
           [] key = "constant_prepayment_rate" ->
                [p EXCEPT !.constant_prepayment_rate =
                     CPRFormula(b["high_yield_spread"])]
           [] key = "recovery" ->
                [p EXCEPT !.recovery = RecoveryFormula(b["national_home_price_index"])]
           [] key = "lag" -> p

\* lines 347-362: one iteration of the loop over default_assumptions.items()
ApplyKey(p, key, value, b) ==
    IF ~IsSentinel(value)
    THEN [p EXCEPT ![key] = value]
    ELSE CASE key = "constant_default_rate" ->
                [p EXCEPT !.constant_default_rate =
                     CDRFormula(b["gdp_growth"], b["unemployment_rate"])]
           [] key = "constant_prepayment_rate" ->
                [p EXCEPT !.constant_prepayment_rate =
                     CPRFormula(b["high_yield_spread"])]
           [] key = "recovery" ->
                [p EXCEPT !.recovery = RecoveryFormula(b["national_home_price_index"])]
           [] key = "lag" ->
                [p EXCEPT !.lag = value]

\* lines 346-362: the loop, in the order the dict yields its items
RECURSIVE ApplyAll(_, _, _)
ApplyAll(p, order, b) ==
    IF order = <<>> THEN p
    ELSE ApplyAll(ApplyKey(p, Head(order), b[Head(order)], b), Tail(order), b)

\* iteration orders of a dict with the four keys
KeyOrders == {o \in [1..4 -> DefaultKeys] : \A i, j \in 1..4 : i # j => o[i] # o[j]}

\* lines 323-365, AssumptionProfileAPI.post
APPost ==
    /\ ap_pc = "start"
    /\ ap_pc' = "done"
    /\ IF \E k \in APKeys : ~Has(ap_body, k)
       THEN \* lines 325-343: body[...] raises KeyError before anything is written
            /\ ap_response' = Fault("KeyError")
            /\ UNCHANGED assumption_profiles
       ELSE \E order \in KeyOrders :
              LET p == ApplyAll(NewAssumptionProfile(ap_body), order, ap_body)
              IN  \/ /\ assumption_profiles' = Append(assumption_profiles, p)
                     /\ ap_response' = JsonStatus("OK", "Assumption Profile Created!!")
                  \/ \* line 364: save() raises
                     /\ ap_response' = Fault("StorageError")
                     /\ UNCHANGED assumption_profiles
    /\ UNCHANGED <<ap_body, riskVars>>

\* lines 280-282, AssumptionProfileAPI.get
APGet ==
    /\ ap_response' = JsonList(assumption_profiles)
    /\ UNCHANGED <<assumption_profiles, ap_pc, ap_body, riskVars>>

(***************************************************************************)
(* RiskProfileAPI, RiskFactorAPI, RiskConditionalAPI                       *)
(***************************************************************************)
\* request contexts running RiskFactorAPI.post, whose writes interleave
Procs == 1..NumRequests

\* the request context of the handlers that make at most one write
Atomic == 0

Contexts == {Atomic} \cup Procs

\* a request context takes a request when it has none or has answered the last
Ready(r) == pc[r] \in {"idle", "done"}

GoodItems == {("conditional" :> ">") @@ ("value" :> 450),
              ("conditional" :> "<") @@ ("value" :> 550)}

\* a list entry without its "value" key
BadItem == ("conditional" :> "==")

ConditionalLists == UNION {[1..n -> GoodItems] : n \in 0..MaxConditionals}

FactorKeys == {"risk_profile_id", "risk_factor_attribute", "changing_assumption",
               "percentage_change", "conditionals_list"}

FactorBody(id, list) ==
    ("risk_profile_id" :> id) @@ ("risk_factor_attribute" :> "FICO") @@
    ("changing_assumption" :> "CDR") @@ ("percentage_change" :> -5) @@
    ("conditionals_list" :> list)

ExampleList == <<("conditional" :> ">") @@ ("value" :> 450),
                 ("conditional" :> "<") @@ ("value" :> 550)>>

\* request bodies of RiskFactorAPI.post: any profile id (one more than can
\* exist), any list, and bodies with one required key absent
FactorBodies ==
    {FactorBody(id, l) : id \in 1..(MaxProfiles + 1), l \in ConditionalLists}
    \cup {Without(FactorBody(1, SubSeq(ExampleList, 1, 1)), k) : k \in FactorKeys}
    \cup {FactorBody(1, <<ExampleList[1], BadItem>>)}

ProfileBodies == {("name" :> "Zipcode's in NJ"), <<>>}

\* GET dicts of RiskFactorAPI.get and RiskConditionalAPI.get
FactorQueries == {("risk_profile_id" :> id) : id \in 1..(MaxProfiles + 1)} \cup {<<>>}

ConditionalQueries == {("risk_factor_id" :> id) : id \in 1..(MaxFactors + 1)} \cup {<<>>}

\* mutant: the existence check always passes
ProfileExistsAlways(id) == TRUE

\* RiskProfile.objects.filter(pk=risk_profile_id).exists(), lines 118-120, 159-161
ProfileExists(id) == id \in 1..Len(risk_profiles)

\* mutant: the existence check always passes
FactorExistsAlways(id) == TRUE

\* RiskFactor.objects.filter(pk=risk_factor_id).exists(), lines 221-223
FactorExists(id) == id \in 1..Len(risk_factors)

\* .values() of a table: each row with its pk
Values(table) == [i \in 1..Len(table) |-> [id |-> i, fields |-> table[i]]]

\* lines 162-166: the RiskFactor instance built from the body
NewRiskFactor(b) ==
    [risk_profile |-> b["risk_profile_id"],
     attribute |-> b["risk_factor_attribute"],
     changing_assumption |-> b["changing_assumption"],
     percentage_change |-> b["percentage_change"]]

\* mutant: line 174 missing, the value is never copied
NewRiskConditionalNoValue(r, item) ==
    [risk_factor |-> new_risk_factor[r],
     conditional |-> item["conditional"],
     value |-> 0]

\* mutant: the conditional is bound to a factor pk that was never saved
NewRiskConditionalUnsavedFactor(r, item) ==
    [risk_factor |-> new_risk_factor[r] + 1,
     conditional |-> item["conditional"],
     value |-> item["value"]]

\* mutant: the conditional is bound to the factor saved last by any request
\* (new_risk_factor shared between requests instead of local to one)
NewRiskConditionalLatestFactor(r, item) ==
    [risk_factor |-> Len(risk_factors),
     conditional |-> item["conditional"],
     value |-> item["value"]]

\* lines 172-174: the RiskConditional instance built from one list entry
NewRiskConditional(r, item) ==
    [risk_factor |-> new_risk_factor[r],
     conditional |-> item["conditional"],
     value |-> item["value"]]

\* mutant: the loop walks the list from its end
NextItemReversed(list, k) == list[Len(list) - k]

\* line 171: the entry the loop visits after k entries have been saved
NextItem(list, k) == list[k + 1]

\* the conditionals of one factor, in creation order
RECURSIVE ConditionalsOf(_, _)
ConditionalsOf(f, table) ==
    IF table = <<>> THEN <<>>
    ELSE (IF Head(table).risk_factor = f
          THEN <<("conditional" :> Head(table).conditional) @@
                  ("value" :> Head(table).value)>>
          ELSE <<>>) \o ConditionalsOf(f, Tail(table))

\* the handler returns (or raises): its frame is gone, the caller has resp
Reply(r, resp) ==
    /\ pc' = [pc EXCEPT ![r] = "done"]
    /\ body' = [body EXCEPT ![r] = <<>>]
    /\ item_index' = [item_index EXCEPT ![r] = 0]
    /\ response' = [response EXCEPT ![r] = resp]

storeVars == <<risk_profiles, risk_factors, risk_conditionals, conditionals_list>>

\* lines 67-74, RiskProfileAPI.post
CreateRiskProfile ==
    /\ Ready(Atomic)
    /\ Len(risk_profiles) < MaxProfiles
    /\ \E b \in ProfileBodies :
         /\ op' = [op EXCEPT ![Atomic] = "createRiskProfile"]
         /\ IF ~Has(b, "name")
            THEN \* line 69 raises KeyError
                 /\ Reply(Atomic, Fault("KeyError"))
                 /\ UNCHANGED risk_profiles
            ELSE \/ /\ risk_profiles' = Append(risk_profiles, [name |-> b["name"]])
                    /\ Reply(Atomic, JsonStatus("OK", "Risk Profile Created!!"))
                 \/ \* line 73: save() raises
                    /\ Reply(Atomic, Fault("StorageError"))
                    /\ UNCHANGED risk_profiles
    /\ UNCHANGED <<risk_factors, risk_conditionals, conditionals_list,
                   new_risk_factor, filter_dict, apVars>>

\* lines 49-51, RiskProfileAPI.get
ListRiskProfiles ==
    /\ Ready(Atomic)
    /\ op' = [op EXCEPT ![Atomic] = "listRiskProfiles"]
    /\ filter_dict' = <<>>
    /\ Reply(Atomic, JsonList(Values(risk_profiles)))
    /\ UNCHANGED <<storeVars, new_risk_factor, apVars>>

\* lines 115-126, RiskFactorAPI.get
ListRiskFactors ==
    /\ Ready(Atomic)
    /\ \E q \in FactorQueries :
         /\ filter_dict' = q
         /\ op' = [op EXCEPT ![Atomic] = "listRiskFactors"]
         /\ IF ~Has(q, "risk_profile_id")
            THEN \* line 117 raises KeyError
                 Reply(Atomic, Fault("KeyError"))
            ELSE IF ProfileExists(q["risk_profile_id"])
            THEN Reply(Atomic, JsonList(SelectSeq(Values(risk_factors),
                     LAMBDA row : row.fields.risk_profile = q["risk_profile_id"])))
            ELSE Reply(Atomic, JsonStatus("FAIL", "Risk Profile provided does not exist."))
    /\ UNCHANGED <<storeVars, new_risk_factor, apVars>>

\* lines 218-230, RiskConditionalAPI.get
ListRiskConditionals ==
    /\ Ready(Atomic)
    /\ \E q \in ConditionalQueries :
         /\ filter_dict' = q
         /\ op' = [op EXCEPT ![Atomic] = "listRiskConditionals"]
         /\ IF ~Has(q, "risk_factor_id")
            THEN \* line 220 raises KeyError
                 Reply(Atomic, Fault("KeyError"))
            ELSE IF FactorExists(q["risk_factor_id"])
            THEN Reply(Atomic, JsonList(SelectSeq(Values(risk_conditionals),
                     LAMBDA row : row.fields.risk_factor = q["risk_factor_id"])))
            ELSE Reply(Atomic, JsonStatus("FAIL", "Risk Factor does not exist."))
    /\ UNCHANGED <<storeVars, new_risk_factor, apVars>>

\* factors already saved plus those a request in flight is about to save;
\* a request is taken only while this is below MaxFactors
FactorsClaimed == Len(risk_factors) + Cardinality({q \in Procs : pc[q] = "create"})

\* lines 154-161, 179, 181: RiskFactorAPI.post up to the existence check
PostBegin(r) ==
    /\ Ready(r)
    /\ FactorsClaimed < MaxFactors
    /\ \E b \in FactorBodies :
         /\ op' = [op EXCEPT ![r] = "createRiskFactor"]
         /\ IF ~Has(b, "risk_profile_id")
            THEN Reply(r, JsonStatus("FAIL", "Risk Profile ID must be provided."))
            ELSE IF ProfileExists(b["risk_profile_id"])
            THEN /\ pc' = [pc EXCEPT ![r] = "create"]
                 /\ body' = [body EXCEPT ![r] = b]
                 /\ item_index' = [item_index EXCEPT ![r] = 0]
                 /\ response' = [response EXCEPT ![r] = NoResponse]
            ELSE Reply(r, JsonStatus("FAIL", "Risk Profile provided does not exist."))
    /\ new_risk_factor' = [new_risk_factor EXCEPT ![r] = 0]
    /\ UNCHANGED <<storeVars, filter_dict, apVars>>

\* lines 162-167: build the factor and save it
PostSaveFactor(r) ==
    /\ pc[r] = "create"
    /\ IF \E k \in {"risk_factor_attribute", "changing_assumption", "percentage_change"} :
            ~Has(body[r], k)
       THEN \* lines 164-166 raise KeyError before the save
            /\ Reply(r, Fault("KeyError"))
            /\ UNCHANGED <<risk_factors, conditionals_list, new_risk_factor>>
       ELSE \/ /\ risk_factors' = Append(risk_factors, NewRiskFactor(body[r]))
               /\ conditionals_list' = Append(conditionals_list,
                      IF Has(body[r], "conditionals_list")
                      THEN body[r]["conditionals_list"] ELSE <<>>)
               /\ new_risk_factor' = [new_risk_factor EXCEPT ![r] = Len(risk_factors) + 1]
               /\ pc' = [pc EXCEPT ![r] = "loop"]
               /\ UNCHANGED <<body, item_index, response>>
            \/ \* line 167: save() raises
               /\ Reply(r, Fault("StorageError"))
               /\ UNCHANGED <<risk_factors, conditionals_list, new_risk_factor>>
    /\ UNCHANGED <<risk_profiles, risk_conditionals, op, filter_dict, apVars>>

\* lines 169-175: one iteration of the loop over conditionals_list
PostSaveConditional(r) ==
    /\ pc[r] = "loop"
    /\ IF ~Has(body[r], "conditionals_list")
       THEN \* line 169 raises KeyError, after the factor was saved
            /\ Reply(r, Fault("KeyError"))
            /\ UNCHANGED risk_conditionals
       ELSE /\ item_index[r] < Len(body[r]["conditionals_list"])
            /\ LET item == NextItem(body[r]["conditionals_list"], item_index[r])
               IN  IF ~Has(item, "conditional") \/ ~Has(item, "value")
                   THEN \* lines 173-174 raise KeyError
                        /\ Reply(r, Fault("KeyError"))
                        /\ UNCHANGED risk_conditionals
                   ELSE \/ /\ risk_conditionals' =
                                 Append(risk_conditionals, NewRiskConditional(r, item))
                           /\ item_index' = [item_index EXCEPT ![r] = @ + 1]
                           /\ UNCHANGED <<pc, body, response>>
                        \/ \* line 175: save() raises
                           /\ Reply(r, Fault("StorageError"))
                           /\ UNCHANGED risk_conditionals
    /\ UNCHANGED <<risk_profiles, risk_factors, conditionals_list, op,
                   new_risk_factor, filter_dict, apVars>>

\* line 177: the loop is exhausted
PostReturn(r) ==
    /\ pc[r] = "loop"
    /\ Has(body[r], "conditionals_list")
    /\ item_index[r] = Len(body[r]["conditionals_list"])
    /\ Reply(r, JsonStatus("PASS", "Risk Factor added."))
    /\ UNCHANGED <<storeVars, op, new_risk_factor, filter_dict, apVars>>

RiskInit ==
    /\ risk_profiles = <<>>
    /\ risk_factors = <<>>
    /\ risk_conditionals = <<>>
    /\ conditionals_list = <<>>
    /\ pc = [r \in Contexts |-> "idle"]
    /\ op = [r \in Contexts |-> "none"]
    /\ body = [r \in Contexts |-> <<>>]
    /\ new_risk_factor = [r \in Contexts |-> 0]
    /\ item_index = [r \in Contexts |-> 0]
    /\ response = [r \in Contexts |-> NoResponse]
    /\ filter_dict = <<>>

InitAP ==
    /\ RiskInit
    /\ assumption_profiles = <<>>
    /\ ap_pc = "start"
    /\ ap_body \in APBodies
    /\ ap_response = NoResponse

Init ==
    /\ RiskInit
    /\ assumption_profiles = <<>>
    /\ ap_pc = "start"
    /\ ap_body = ExampleAPBody
    /\ ap_response = NoResponse

Next ==
    \/ CreateRiskProfile
    \/ \E r \in Procs :
        \/ PostBegin(r)
        \/ PostSaveFactor(r)
        \/ PostSaveConditional(r)
        \/ PostReturn(r)

Spec == Init /\ [][Next]_vars

\* every store the write handlers can leave behind: each factor references an
\* existing profile, each conditional an existing factor
InitList ==
    /\ \E n \in 0..MaxProfiles :
          risk_profiles = [i \in 1..n |-> [name |-> "Zipcode's in NJ"]]
    /\ \E m \in 0..MaxFactors :
          risk_factors \in [1..m -> {NewRiskFactor(FactorBody(id, <<>>)) :
                                         id \in 1..Len(risk_profiles)}]
    /\ \E k \in 0..MaxConditionals :
          risk_conditionals \in
              [1..k -> {[risk_factor |-> f, conditional |-> i["conditional"],
                         value |-> i["value"]] :
                            f \in 1..Len(risk_factors), i \in GoodItems}]
    /\ conditionals_list =
          [f \in 1..Len(risk_factors) |-> ConditionalsOf(f, risk_conditionals)]
    /\ pc = [r \in Contexts |-> "idle"]
    /\ op = [r \in Contexts |-> "none"]
    /\ body = [r \in Contexts |-> <<>>]
    /\ new_risk_factor = [r \in Contexts |-> 0]
    /\ item_index = [r \in Contexts |-> 0]
    /\ response = [r \in Contexts |-> NoResponse]
    /\ filter_dict = <<>>
    /\ assumption_profiles = <<>>
    /\ ap_pc = "start"
    /\ ap_body = ExampleAPBody
    /\ ap_response = NoResponse

NextList == ListRiskProfiles \/ ListRiskFactors \/ ListRiskConditionals

SpecList == InitList /\ [][NextList]_vars

NextAP == APPost \/ APGet

SpecAP == InitAP /\ [][NextAP]_vars

(***************************************************************************)
(* Properties                                                              *)
(***************************************************************************)
\* what belongs to request context r
Context(r) == <<pc[r], op[r], body[r], new_risk_factor[r], item_index[r], response[r]>>

\* the step was taken by request context r (each step is taken by one context)
Acted(r) == Context(r)' # Context(r)

IsPrefix(s, t) == Len(s) <= Len(t) /\ s = SubSeq(t, 1, Len(s))

Failed(resp) == resp.kind = "json" /\ resp.status = "FAIL"

Passed(resp) == resp.kind = "json" /\ resp.status = "PASS"

\* C1: the first step of createRiskFactor writes no record (the existence
\* lookup precedes every write), and it goes on to the writes only when the
\* given risk_profile_id is the pk of a persisted RiskProfile; otherwise the
\* request ends there with a FAIL response and has created no factor.
C1_UnknownProfileCreatesNothing ==
    [][\A r \in Procs :
         (Ready(r) /\ Acted(r)) =>
            /\ UNCHANGED storeVars
            /\ \/ /\ pc'[r] = "create"
                  /\ body'[r]["risk_profile_id"] \in 1..Len(risk_profiles)
               \/ /\ pc'[r] = "done"
                  /\ Failed(response'[r])
                  /\ new_risk_factor'[r] = 0]_vars

C1_Witness ==
    \E r \in Procs :
        /\ pc[r] = "done"
        /\ op[r] = "createRiskFactor"
        /\ response[r] = JsonStatus("FAIL", "Risk Profile provided does not exist.")
        /\ Len(risk_profiles) = 1
        /\ risk_factors = <<>>
        /\ risk_conditionals = <<>>

\* C2: when createRiskFactor answers PASS, the factor it saved is bound to the
\* profile named in the request and carries the request's fields, and the
\* conditionals bound to that factor are, in creation order, exactly the
\* request's (conditional, value) pairs; every factor record is added by the
\* single save step of one request (one new factor per request).
C2_SuccessPersistsFactorAndConditionals ==
    [][/\ \A r \in Procs :
            (pc[r] = "loop" /\ pc'[r] = "done" /\ Passed(response'[r])) =>
               LET f == new_risk_factor[r]
                   b == body[r]
               IN  /\ f \in 1..Len(risk_factors')
                   /\ new_risk_factor'[r] = f
                   /\ b["risk_profile_id"] \in 1..Len(risk_profiles')
                   /\ risk_factors'[f].risk_profile = b["risk_profile_id"]
                   /\ risk_factors'[f].attribute = b["risk_factor_attribute"]
                   /\ risk_factors'[f].changing_assumption = b["changing_assumption"]
                   /\ risk_factors'[f].percentage_change = b["percentage_change"]
                   /\ ConditionalsOf(f, risk_conditionals') = b["conditionals_list"]
       /\ (risk_factors' # risk_factors) =>
            \E r \in Procs :
               /\ pc[r] = "create" /\ pc'[r] = "loop"
               /\ Len(risk_factors') = Len(risk_factors) + 1
               /\ SubSeq(risk_factors', 1, Len(risk_factors)) = risk_factors
               /\ new_risk_factor'[r] = Len(risk_factors')]_vars

C2_Witness ==
    \E r \in Procs :
        /\ pc[r] = "done"
        /\ Passed(response[r])
        /\ new_risk_factor[r] = 2
        /\ Len(risk_factors) = 2
        /\ ConditionalsOf(2, risk_conditionals) = ExampleList
        /\ ConditionalsOf(1, risk_conditionals) = <<>>

\* C3: a stored assumption profile whose constant_default_rate input was -100
\* has CDR = -g + 1.2u + 1, one whose constant_prepayment_rate input was -100
\* has CPR = (245 - 10y)/9, one whose recovery input was -100 has
\* Recovery = 2.5h + 50, whatever the other macro inputs and the other
\* parameters' inputs are.
RatIs(c, num, den) == c.d > 0 /\ c.n * den = c.d * num

IsMinus100(v) == v.n = -100 /\ v.d = 1

Stored == assumption_profiles[Len(assumption_profiles)]

C3_SentinelYieldsFormula ==
    /\ (ap_response.status = "OK") => Len(assumption_profiles) = 1
    /\ (assumption_profiles # <<>>) =>
         LET g == ap_body["gdp_growth"]
             u == ap_body["unemployment_rate"]
             h == ap_body["national_home_price_index"]
             y == ap_body["high_yield_spread"]
         IN  /\ IsMinus100(ap_body["constant_default_rate"]) =>
                   RatIs(Stored.constant_default_rate,
                         10 * g.d * u.d + 12 * u.n * g.d - 10 * g.n * u.d,
                         10 * g.d * u.d)
             /\ IsMinus100(ap_body["constant_prepayment_rate"]) =>
                   RatIs(Stored.constant_prepayment_rate,
                         245 * y.d - 10 * y.n, 9 * y.d)
             /\ IsMinus100(ap_body["recovery"]) =>
                   RatIs(Stored.recovery, 5 * h.n + 100 * h.d, 2 * h.d)

\* the scenario gdp 3.2, unemployment 8.5, home price 3.7, yield spread 5.2:
\* CDR 8.0, CPR 193/9 = 21.444..., Recovery 59.25, lag 128
C3_Witness ==
    /\ ap_body = ExampleAPBody
    /\ ap_response.status = "OK"
    /\ Len(assumption_profiles) = 1
    /\ Stored.constant_default_rate = [n |-> 8, d |-> 1]
    /\ Stored.constant_prepayment_rate = [n |-> 193, d |-> 9]
    /\ Stored.recovery = [n |-> 237, d |-> 4]
    /\ Stored.lag = [n |-> 128, d |-> 1]

\* C4: a stored assumption profile carries, for each of constant_default_rate,
\* constant_prepayment_rate and recovery, the supplied input itself whenever
\* that input is not -100.
C4_SuppliedValueStored ==
    (assumption_profiles # <<>>) =>
        /\ ~IsMinus100(ap_body["constant_default_rate"]) =>
              Stored.constant_default_rate = ap_body["constant_default_rate"]
        /\ ~IsMinus100(ap_body["constant_prepayment_rate"]) =>
              Stored.constant_prepayment_rate = ap_body["constant_prepayment_rate"]
        /\ ~IsMinus100(ap_body["recovery"]) =>
              Stored.recovery = ap_body["recovery"]

C4_Witness ==
    /\ ap_response.status = "OK"
    /\ Len(assumption_profiles) = 1
    /\ ap_body["gdp_growth"] = [n |-> -1, d |-> 1]
    /\ Stored.constant_default_rate = [n |-> -101, d |-> 1]
    /\ Stored.constant_prepayment_rate = [n |-> 69, d |-> 4]
    /\ Stored.recovery = [n |-> -8923, d |-> 100]

\* C5: a stored assumption profile carries the supplied lag, -100 included.
C5_LagStoredVerbatim ==
    (assumption_profiles # <<>>) =>
        /\ Stored.lag.d > 0
        /\ Stored.lag = ap_body["lag"]

C5_Witness ==
    /\ ap_response.status = "OK"
    /\ Len(assumption_profiles) = 1
    /\ IsMinus100(ap_body["lag"])
    /\ IsMinus100(ap_body["recovery"])
    /\ Stored.lag = [n |-> -100, d |-> 1]

\* C6: no request ends as an uncaught KeyError, that is, a request with a
\* required field absent is answered with a status and a message.
C6_NoUncaughtKeyError ==
    \A r \in Contexts : ~(response[r].kind = "fault" /\ response[r].message = "KeyError")

\* C7: listRiskFactors answers FAIL when risk_profile_id is the pk of no
\* RiskProfile and otherwise a list holding exactly the factors of that
\* profile; listRiskConditionals likewise for risk_factor_id and RiskFactor.
RowIds(rows) == {rows[i].id : i \in 1..Len(rows)}

C7_UnknownParentFailsKnownParentLists ==
    [][/\ (op'[Atomic] = "listRiskFactors" /\ Has(filter_dict', "risk_profile_id")) =>
            IF filter_dict'["risk_profile_id"] \in 1..Len(risk_profiles)
            THEN /\ response'[Atomic].kind = "list"
                 /\ ~Failed(response'[Atomic])
                 /\ RowIds(response'[Atomic].rows) =
                       {i \in 1..Len(risk_factors) :
                           risk_factors[i].risk_profile = filter_dict'["risk_profile_id"]}
            ELSE /\ Failed(response'[Atomic])
                 /\ response'[Atomic].message # ""
                 /\ response'[Atomic].rows = <<>>
       /\ (op'[Atomic] = "listRiskConditionals" /\ Has(filter_dict', "risk_factor_id")) =>
            IF filter_dict'["risk_factor_id"] \in 1..Len(risk_factors)
            THEN /\ response'[Atomic].kind = "list"
                 /\ ~Failed(response'[Atomic])
                 /\ RowIds(response'[Atomic].rows) =
                       {i \in 1..Len(risk_conditionals) :
                           risk_conditionals[i].risk_factor = filter_dict'["risk_factor_id"]}
            ELSE /\ Failed(response'[Atomic])
                 /\ response'[Atomic].message # ""
                 /\ response'[Atomic].rows = <<>>]_vars

C7_Witness ==
    /\ op[Atomic] = "listRiskConditionals"
    /\ Len(risk_factors) = 1
    /\ Len(risk_conditionals) = 1
    /\ filter_dict = ("risk_factor_id" :> 2)
    /\ response[Atomic] = JsonStatus("FAIL", "Risk Factor does not exist.")

\* C8: in every state the conditionals persisted for a factor are, in
\* creation order, a prefix of the list its creating request supplied, and no
\* step removes a persisted factor or conditional.
C8_ConditionalsArePrefix ==
    /\ [](/\ Len(conditionals_list) = Len(risk_factors)
          /\ \A f \in 1..Len(risk_factors) :
                IsPrefix(ConditionalsOf(f, risk_conditionals), conditionals_list[f]))
    /\ [][/\ IsPrefix(risk_factors, risk_factors')
          /\ IsPrefix(risk_conditionals, risk_conditionals')]_vars

\* a request that raised after its factor and one of its two conditionals
\* were saved
C8_Witness ==
    \E r \in Procs :
        /\ pc[r] = "done"
        /\ response[r] = Fault("StorageError")
        /\ new_risk_factor[r] \in 1..Len(risk_factors)
        /\ conditionals_list[new_risk_factor[r]] = ExampleList
        /\ ConditionalsOf(new_risk_factor[r], risk_conditionals) = SubSeq(ExampleList, 1, 1)

\* C9: every persisted conditional references a persisted factor and every
\* persisted factor a persisted profile, and each record a step adds
\* references a parent that was persisted before the step.
C9_ReferentialIntegrity ==
    /\ [](/\ \A i \in 1..Len(risk_conditionals) :
                risk_conditionals[i].risk_factor \in 1..Len(risk_factors)
          /\ \A f \in 1..Len(risk_factors) :
                risk_factors[f].risk_profile \in 1..Len(risk_profiles))
    /\ [][/\ \A i \in (Len(risk_conditionals) + 1)..Len(risk_conditionals') :
                risk_conditionals'[i].risk_factor \in 1..Len(risk_factors)
          /\ \A f \in (Len(risk_factors) + 1)..Len(risk_factors') :
                risk_factors'[f].risk_profile \in 1..Len(risk_profiles)]_vars

C9_Witness ==
    /\ Len(risk_profiles) = 2
    /\ Len(risk_factors) = 2
    /\ risk_factors[1].risk_profile = 2
    /\ risk_factors[2].risk_profile = 1
    /\ Len(risk_conditionals) = 3
    /\ risk_conditionals[1].risk_factor = 2

\* C10: whenever two createRiskFactor requests have both answered PASS, their
\* factors are distinct, each factor holds exactly the conditionals its own
\* request supplied, and the conditionals bound to the two factors number the
\* sum of the two supplied lengths, however their writes were interleaved.
C10_ConcurrentRequestsKeepOwnConditionals ==
    \A r1, r2 \in Procs :
        (r1 # r2 /\ pc[r1] = "done" /\ pc[r2] = "done"
            /\ Passed(response[r1]) /\ Passed(response[r2])) =>
           LET f1 == new_risk_factor[r1]
               f2 == new_risk_factor[r2]
           IN  /\ f1 \in 1..Len(risk_factors)
               /\ f2 \in 1..Len(risk_factors)
               /\ f1 # f2
               /\ ConditionalsOf(f1, risk_conditionals) = conditionals_list[f1]
               /\ ConditionalsOf(f2, risk_conditionals) = conditionals_list[f2]
               /\ Len(SelectSeq(risk_conditionals, LAMBDA c : c.risk_factor \in {f1, f2}))
                     = Len(conditionals_list[f1]) + Len(conditionals_list[f2])

\* both requests against the same profile, their four writes alternating
C10_Witness ==
    /\ \A r \in Procs : pc[r] = "done" /\ Passed(response[r])
    /\ Len(risk_factors) = 2
    /\ risk_factors[1].risk_profile = risk_factors[2].risk_profile
    /\ Len(risk_conditionals) = 4
    /\ risk_conditionals[1].risk_factor = 2
    /\ risk_conditionals[2].risk_factor = 1
    /\ risk_conditionals[3].risk_factor = 2
    /\ risk_conditionals[4].risk_factor = 1
====
